---- MODULE Spec2Model ----
(***************************************************************************)
(* Model of the trivigy/oas codec: the OpenAPI entity types, their         *)
(* MarshalYAML / UnmarshalYAML / MarshalJSON / UnmarshalJSON / Clone       *)
(* methods, the Extensions type and the value normalizer.                  *)
(*                                                                         *)
(* Go values are tagged records (field t is the tag):                      *)
(*   str/int/bool      scalars                                             *)
(*   nil (of: any|ptr|map|slice)  the nil of an interface, pointer, map or *)
(*                     slice                                               *)
(*   seq (xs)          a non-nil slice                                     *)
(*   smap (m)          a non-nil map with string keys                      *)
(*   imap (m)          a non-nil map[interface{}]interface{}; its keys are *)
(*                     scalar records                                      *)
(*   ent (ty, f, x)    a struct of type ty with fields f (keyed by the     *)
(*                     YAML key of the field) and extension bag x          *)
(* Serialized documents are trees of ynull/yseq/ymap (YAML) and            *)
(* jnull/jseq/jobj (JSON) around the same scalars.                         *)
(***************************************************************************)
EXTENDS Integers, Sequences, FiniteSets, TLC

VARIABLES
  pc,         \* position of the caller (the flow of the repository's tests)
  ty,         \* the entity type the caller works with
  val,        \* the entity the caller constructed in memory, or None
  jsonBytes,  \* result of json.Marshal(val), or a document the caller received
  yamlBytes,  \* result of yaml.Marshal(val), or the same document as YAML
  dstJ,       \* result of json.Unmarshal(jsonBytes, &T{})
  dstY,       \* result of yaml.Unmarshal(yamlBytes, &T{})
  cl,         \* result of val.Clone()
  fields,     \* the field layout of every entity type, as compiled: it
              \* never changes
  arg,        \* the argument of the last call of cleanupMapValue
  ret,        \* the value that call returned
  th,         \* the decode calls that run on goroutines of their own: for
              \* each goroutine its position and the locals of its call
  decl        \* the declaration of SecurityRequirement the build has: the
              \* sources hold two, and a package compiles with one

vars ==
  <<pc, ty, val, jsonBytes, yamlBytes, dstJ, dstY, cl, fields, arg, ret, th,
    decl>>

(***************************************************************************)
(* Go values                                                               *)
(***************************************************************************)
GoStr(s) == [t |-> "str", s |-> s]
GoInt(n) == [t |-> "int", n |-> n]
GoBool(b) == [t |-> "bool", b |-> b]
NilAny == [t |-> "nil", of |-> "any"]
NilPtr == [t |-> "nil", of |-> "ptr"]
NilMap == [t |-> "nil", of |-> "map"]
NilSlice == [t |-> "nil", of |-> "slice"]
GoSeq(xs) == [t |-> "seq", xs |-> xs]
SMap(m) == [t |-> "smap", m |-> m]
IMap(m) == [t |-> "imap", m |-> m]
Ent(T, f, x) == [t |-> "ent", ty |-> T, f |-> f, x |-> x]

IsNil(v) == v.t = "nil"
IsScalar(v) == v.t \in {"str", "int", "bool"}

\* len(v) of a slice or map, nil included
GoLen(v) ==
  CASE v.t = "nil" -> 0
    [] v.t = "seq" -> Len(v.xs)
    [] v.t \in {"smap", "imap"} -> Cardinality(DOMAIN v.m)
    [] OTHER -> 0

(***************************************************************************)
(* Documents                                                               *)
(***************************************************************************)
YNull == [t |-> "ynull"]
YSeq(xs) == [t |-> "yseq", xs |-> xs]
YMap(m) == [t |-> "ymap", m |-> m]
JNull == [t |-> "jnull"]
JSeq(xs) == [t |-> "jseq", xs |-> xs]
JObj(m) == [t |-> "jobj", m |-> m]

Ok(v) == [err |-> FALSE, v |-> v]
Fail(v) == [err |-> TRUE, v |-> v]
None == [t |-> "none"]

\* IsExtKey without the prefix test: every key passes
IsExtKeyAny(k) == Len(k) >= 0

\* strings.HasPrefix(strings.ToLower(k), "x-")
IsExtKey(k) ==
  /\ Len(k) >= 2
  /\ SubSeq(k, 1, 2) \in {"x-", "X-"}

\* fmt.Sprint / fmt.Sprintf("%v") of a scalar
Sprint(v) ==
  CASE v.t = "str" -> v.s
    [] v.t \in {"int", "float"} -> ToString(v.n)
    [] v.t = "bool" -> IF v.b THEN "true" ELSE "false"
    [] v.t = "nil" -> "<nil>"
    [] v.t = "seq" -> "[]"
    [] OTHER -> "map[]"


(***************************************************************************)
(* Field tables.  One row per struct field, in the order in which the      *)
(* type's MarshalYAML and UnmarshalYAML handle the fields:                 *)
(*   key   the map key                                                     *)
(*   kind  str | bool | ptr (pointer to T) | val (T) | list (slice of      *)
(*         pointers to T) | map (string to pointer to T) | strmap (string  *)
(*         to string) | strs ([]string, coerced with fmt.Sprint) | any     *)
(*         (interface{}) | anys ([]interface{}) | dmap                     *)
(*         (Discriminator.Mapping) | sec | secroot (the security lists)    *)
(*   omit  the encoder's condition: req (always emitted), ne (!= ""),      *)
(*         true (only when true), nonnil (!= nil), len (len(..) > 0)       *)
(*   child the element type T                                              *)
(*   clean whether the decoder passes the value through cleanupMapValue    *)
(***************************************************************************)
Fld(key, kind, omit, child, clean) ==
  [key |-> key, kind |-> kind, omit |-> omit, child |-> child, clean |-> clean]
S(key) == Fld(key, "str", "ne", "", FALSE)
SR(key) == Fld(key, "str", "req", "", FALSE)
B(key) == Fld(key, "bool", "true", "", FALSE)
P(key, T) == Fld(key, "ptr", "nonnil", T, FALSE)
V(key, T) == Fld(key, "val", "req", T, FALSE)
L(key, T, omit) == Fld(key, "list", omit, T, FALSE)
M(key, T, omit) == Fld(key, "map", omit, T, FALSE)
A(key, clean) == Fld(key, "any", "nonnil", "", clean)

ContactFields == << S("name"), S("url"), S("email") >>

LicenseFields == << SR("name"), S("url") >>

InfoFields ==
  << SR("title"), S("description"), S("termsOfService"),
     P("contact", "Contact"), P("license", "License"), SR("version") >>

ExternalDocumentationFields == << S("description"), SR("url") >>

ServerVariableFields ==
  << Fld("enum", "strs", "len", "", FALSE), SR("default"), S("description") >>

ServerFields ==
  << SR("url"), S("description"), M("variables", "ServerVariable", "len") >>

TagFields ==
  << SR("name"), S("description"), P("externalDocs", "ExternalDocumentation") >>

XMLFields ==
  << S("name"), S("namespace"), S("prefix"), B("attribute"), B("wrapped") >>

DiscriminatorFields ==
  << SR("propertyName"), Fld("mapping", "dmap", "len", "", TRUE) >>

ExampleFields ==
  << S("$ref"), S("summary"), S("description"), A("value", TRUE),
     S("externalValue") >>

OAuthFlowFields ==
  << SR("authorizationUrl"), SR("tokenUrl"), S("refreshUrl"),
     Fld("scopes", "strmap", "req", "", FALSE) >>

OAuthFlowsFields ==
  << P("implicit", "OAuthFlow"), P("password", "OAuthFlow"),
     P("clientCredentials", "OAuthFlow"), P("authorizationCode", "OAuthFlow") >>

EncodingFields ==
  << S("contentType"), M("headers", "Header", "len"), S("style"),
     B("explode"), B("allowReserved") >>

MediaTypeFields ==
  << P("schema", "Schema"), A("example", TRUE), M("examples", "Example", "len"),
     M("encoding", "Encoding", "len") >>

HeaderFields ==
  << S("$ref"), S("description"), B("required"), B("deprecated"),
     B("allowEmptyValue"), S("style"), B("explode"), B("allowReserved"),
     P("schema", "Schema"), A("example", FALSE),
     M("examples", "Example", "len"), M("content", "MediaType", "len") >>

\* ParameterFields with an example block of its own, which normalizes
ParameterFieldsOwnExample ==
  << S("$ref"), SR("name"), SR("in"), S("description"), B("required"),
     B("deprecated"), B("allowEmptyValue"), S("style"), B("explode"),
     B("allowReserved"), P("schema", "Schema"), A("example", TRUE),
     M("examples", "Example", "len"), M("content", "MediaType", "len") >>

\* Parameter embeds Header; its codec names the Header fields one by one
ParameterFields ==
  << S("$ref"), SR("name"), SR("in"), S("description"), B("required"),
     B("deprecated"), B("allowEmptyValue"), S("style"), B("explode"),
     B("allowReserved"), P("schema", "Schema"), A("example", FALSE),
     M("examples", "Example", "len"), M("content", "MediaType", "len") >>

RequestBodyFields ==
  << S("$ref"), S("description"), M("content", "MediaType", "req"),
     B("required") >>

ResponseFields ==
  << S("$ref"), SR("description"), M("headers", "Header", "len"),
     M("content", "MediaType", "len"), M("links", "Link", "len") >>

LinkFields ==
  << S("$ref"), S("operationRef"), S("operationId"),
     Fld("parameters", "strmap", "len", "", FALSE), S("requestBody"),
     S("description"), P("server", "Server") >>

OperationFields ==
  << Fld("tags", "strs", "len", "", FALSE), S("summary"), S("description"),
     P("externalDocs", "ExternalDocumentation"), S("operationId"),
     L("parameters", "Parameter", "len"), P("requestBody", "RequestBody"),
     M("responses", "Response", "req"), M("callbacks", "Callback", "nonnil"),
     B("deprecated"), Fld("security", "sec", "len", "", FALSE),
     L("servers", "Server", "nonnil") >>

PathItemFields ==
  << S("$ref"), S("summary"), S("description"),
     P("get", "Operation"), P("put", "Operation"), P("post", "Operation"),
     P("delete", "Operation"), P("options", "Operation"),
     P("head", "Operation"), P("patch", "Operation"), P("trace", "Operation"),
     L("servers", "Server", "len"), L("parameters", "Parameter", "len") >>

ComponentsFields ==
  << M("schemas", "Schema", "len"), M("responses", "Response", "len"),
     M("parameters", "Parameter", "len"), M("examples", "Example", "len"),
     M("requestBodies", "RequestBody", "len"), M("headers", "Header", "len"),
     M("securitySchemes", "SecurityScheme", "len"), M("links", "Link", "len"),
     M("callbacks", "Callback", "len") >>

SchemaFields ==
  << S("$ref"), B("nullable"), P("discriminator", "Discriminator"),
     B("readOnly"), B("writeOnly"), P("xml", "XML"),
     P("externalDocs", "ExternalDocumentation"), A("example", TRUE),
     B("deprecated"),
     A("multipleOf", FALSE), A("maximum", FALSE), B("exclusiveMaximum"),
     A("minimum", FALSE), B("exclusiveMinimum"), A("maxLength", FALSE),
     A("minLength", FALSE), S("pattern"), P("items", "Schema"),
     A("maxItems", FALSE), A("minItems", FALSE), B("uniqueItems"),
     A("maxProperties", FALSE), A("minProperties", FALSE),
     Fld("required", "strs", "len", "", FALSE),
     M("properties", "Schema", "len"), P("additionalProperties", "Schema"),
     Fld("enum", "anys", "len", "", FALSE), S("type"),
     L("allOf", "Schema", "len"), L("anyOf", "Schema", "len"),
     L("oneOf", "Schema", "len"), P("not", "Schema"), S("title"),
     S("description"), A("default", FALSE), S("format") >>

OpenAPIFields ==
  << SR("openapi"), V("info", "Info"), L("servers", "Server", "len"),
     V("paths", "Paths"), P("components", "Components"),
     Fld("security", "secroot", "len", "", FALSE), L("tags", "Tag", "len"),
     P("externalDocs", "ExternalDocumentation") >>

\* SecurityScheme: only its test is in the sources
SecuritySchemeFields ==
  << SR("type"), S("description"), S("name"), S("in"), S("scheme"),
     S("bearerFormat"), V("flows", "OAuthFlows"), S("openIdConnectUrl") >>

\* Paths keeps its entries in PathItems, Callback in CallbackItems (plus $ref)
PathsFields == << M("PathItems", "PathItem", "len") >>

CallbackFields == << S("$ref"), M("CallbackItems", "PathItem", "len") >>

StructTypes ==
  {"Contact", "License", "Info", "ExternalDocumentation", "ServerVariable",
   "Server", "Tag", "XML", "Discriminator", "Example", "OAuthFlow",
   "OAuthFlows", "Encoding", "MediaType", "Header", "Parameter",
   "RequestBody", "Response", "Link", "Operation", "PathItem", "Components",
   "Schema", "OpenAPI", "SecurityScheme"}

MapTypes == {"Paths", "Callback"}

Types == StructTypes \cup MapTypes

FieldTable(T) ==
  CASE T = "Contact" -> ContactFields
    [] T = "License" -> LicenseFields
    [] T = "Info" -> InfoFields
    [] T = "ExternalDocumentation" -> ExternalDocumentationFields
    [] T = "ServerVariable" -> ServerVariableFields
    [] T = "Server" -> ServerFields
    [] T = "Tag" -> TagFields
    [] T = "XML" -> XMLFields
    [] T = "Discriminator" -> DiscriminatorFields
    [] T = "Example" -> ExampleFields
    [] T = "OAuthFlow" -> OAuthFlowFields
    [] T = "OAuthFlows" -> OAuthFlowsFields
    [] T = "Encoding" -> EncodingFields
    [] T = "MediaType" -> MediaTypeFields
    [] T = "Header" -> HeaderFields
    [] T = "Parameter" -> ParameterFields
    [] T = "RequestBody" -> RequestBodyFields
    [] T = "Response" -> ResponseFields
    [] T = "Link" -> LinkFields
    [] T = "Operation" -> OperationFields
    [] T = "PathItem" -> PathItemFields
    [] T = "Components" -> ComponentsFields
    [] T = "Schema" -> SchemaFields
    [] T = "OpenAPI" -> OpenAPIFields
    [] T = "SecurityScheme" -> SecuritySchemeFields
    [] T = "Paths" -> PathsFields
    [] T = "Callback" -> CallbackFields

\* the fields of T, in the order of its codec
Fields(T) == fields[T]

\* the types whose struct has an Extensions field
HasExtensions(T) == T # "Discriminator"

\* the decoders that end with "if len(exts) > 0 { r.Extensions = exts }"
AttachesExtensions == (Types \ {"Discriminator", "Operation"})

\* number of fields the codec handles before it turns to the extensions
SchemaExtPos == 9

ExtPos(T) == IF T = "Schema" THEN SchemaExtPos ELSE Len(Fields(T))

Keys(T) == {Fields(T)[i].key : i \in 1..Len(Fields(T))}

FieldOf(T, k) == Fields(T)[CHOOSE i \in 1..Len(Fields(T)) : Fields(T)[i].key = k]

\* the zero value of a field
ZeroOf(fd) ==
  CASE fd.kind = "str" -> GoStr("")
    [] fd.kind = "bool" -> GoBool(FALSE)
    [] fd.kind = "ptr" -> NilPtr
    [] fd.kind \in {"list", "strs", "anys", "sec", "secroot"} -> NilSlice
    [] fd.kind \in {"map", "strmap", "dmap"} -> NilMap
    [] fd.kind = "any" -> NilAny
    [] OTHER -> None

RECURSIVE Zero(_)
\* T{}: the zero value of struct type T
Zero(T) ==
  Ent(T,
      [k \in Keys(T) |->
         IF FieldOf(T, k).kind = "val" THEN Zero(FieldOf(T, k).child)
         ELSE ZeroOf(FieldOf(T, k))],
      NilMap)


(***************************************************************************)
(* Extensions and the value normalizer (extensions.go)                     *)
(***************************************************************************)
RECURSIVE cleanupMapValue(_)
\* a new slice with every element normalized
cleanupInterfaceArray(in) ==
  GoSeq([i \in 1..Len(in.xs) |-> cleanupMapValue(in.xs[i])])

\* the key whose entry "res[fmt.Sprintf("%v", k)] = ..." writes last under
\* the string s: the last one in the order of the range statement. Go leaves
\* the order of "for k, v := range in" open: a map whose keys collide
\* carries the order the runtime takes in its field ord
LastWritten(in, s) ==
  IF "ord" \in DOMAIN in
  THEN in.ord[CHOOSE i \in 1..Len(in.ord) :
                /\ Sprint(in.ord[i]) = s
                /\ \A j \in 1..Len(in.ord) : Sprint(in.ord[j]) = s => j <= i]
  ELSE CHOOSE k \in DOMAIN in.m : Sprint(k) = s

\* cleanupInterfaceMap that stores the values as they are
cleanupInterfaceMapKeysOnly(in) ==
  SMap([s \in {Sprint(k) : k \in DOMAIN in.m} |-> in.m[LastWritten(in, s)]])

\* a string-keyed map: res[fmt.Sprintf("%v", k)] = cleanupMapValue(v)
cleanupInterfaceMap(in) ==
  SMap([s \in {Sprint(k) : k \in DOMAIN in.m} |->
          cleanupMapValue(in.m[LastWritten(in, s)])])

cleanupMapValue(v) ==
  CASE v.t = "seq" -> cleanupInterfaceArray(v)
    [] v.t = "imap" -> cleanupInterfaceMap(v)
    [] OTHER -> v

(***************************************************************************)
(* MarshalYAML of an entity: the map obj it returns.  The values are the   *)
(* fields themselves (obj[key] = r.Field); the encoder that receives obj   *)
(* descends into them.                                                     *)
(***************************************************************************)
\* Emits with the required keys guarded like the optional ones
EmitsOmitEmpty(fd, x) ==
  CASE fd.omit = "req" -> IF x.t = "str" THEN x.s # "" ELSE GoLen(x) > 0
    [] fd.omit = "ne" -> x.s # ""
    [] fd.omit = "true" -> x.b
    [] fd.omit = "nonnil" -> ~IsNil(x)
    [] fd.omit = "len" -> GoLen(x) > 0

\* the condition under which MarshalYAML stores field fd, holding x, in obj
Emits(fd, x) ==
  CASE fd.omit = "req" -> TRUE
    [] fd.omit = "ne" -> x.s # ""
    [] fd.omit = "true" -> x.b
    [] fd.omit = "nonnil" -> ~IsNil(x)
    [] fd.omit = "len" -> GoLen(x) > 0

\* "for key, val := range r.Extensions { obj[key] = val }"
ExtEntries(v) == IF v.x.t = "smap" THEN v.x.m ELSE << >>

\* the entries of a map-typed field, none for a nil map
MapEntries(x) == IF x.t = "smap" THEN x.m ELSE << >>

\* the fields lo..hi of v that the encoder emits
EmittedFields(v, lo, hi) ==
  LET fs == Fields(v.ty)
      ks == {fs[i].key : i \in {j \in lo..hi : Emits(fs[j], v.f[fs[j].key])}}
  IN [k \in ks |-> v.f[k]]

StructMarshalYAML(v) ==
  EmittedFields(v, ExtPos(v.ty) + 1, Len(Fields(v.ty)))
    @@ ExtEntries(v)
    @@ EmittedFields(v, 1, ExtPos(v.ty))

PathsMarshalYAML(v) == ExtEntries(v) @@ MapEntries(v.f["PathItems"])

CallbackMarshalYAML(v) ==
  ExtEntries(v) @@ MapEntries(v.f["CallbackItems"]) @@ EmittedFields(v, 1, 1)

\* the fields whose map the encoder obtains from the child's MarshalYAML:
\* "value, err := r.Contact.MarshalYAML(); if err != nil { return nil, .. }"
CalledChildren ==
  { <<"Info", "contact">>, <<"Info", "license">>, <<"Tag", "externalDocs">> }

\* MarshalYAMLError with the calls to the children not guarded by "!= nil"
MarshalYAMLErrorUnguarded(v) ==
  \E k \in DOMAIN v.f : <<v.ty, k>> \in CalledChildren /\ IsNil(v.f[k])

RECURSIVE MarshalYAMLError(_)
\* the error result of (r T) MarshalYAML: the error of a called child
MarshalYAMLError(v) ==
  \E k \in DOMAIN v.f :
    /\ <<v.ty, k>> \in CalledChildren
    /\ v.f[k].t = "ent"
    /\ MarshalYAMLError(v.f[k])

MarshalYAML(v) ==
  CASE v.ty = "Paths" -> PathsMarshalYAML(v)
    [] v.ty = "Callback" -> CallbackMarshalYAML(v)
    [] OTHER -> StructMarshalYAML(v)

(***************************************************************************)
(* gopkg.in/yaml.v2 and encoding/json, as the codec uses them              *)
(***************************************************************************)
\* the float64 of value n; as a document scalar, the literal n.0
GoFloat(n) == [t |-> "float", n |-> n]

RECURSIVE yamlMarshal(_)
\* yaml.Marshal: the document for a Go value.  A nil map is written as {},
\* a nil slice as [], a nil pointer or interface as null; a Marshaler is
\* replaced by the result of its MarshalYAML.
yamlMarshal(x) ==
  CASE x.t \in {"str", "int", "bool"} -> x
    [] x.t = "float" -> GoInt(x.n) \* an integral float64 is printed without
                                   \* fraction and reads back as an integer
    [] x.t = "nil" ->
         CASE x.of = "map" -> YMap(<< >>)
           [] x.of = "slice" -> YSeq(<< >>)
           [] OTHER -> YNull
    [] x.t = "seq" -> YSeq([i \in 1..Len(x.xs) |-> yamlMarshal(x.xs[i])])
    [] x.t = "smap" ->
         YMap([kn \in {GoStr(k) : k \in DOMAIN x.m} |-> yamlMarshal(x.m[kn.s])])
    [] x.t = "imap" -> YMap([kn \in DOMAIN x.m |-> yamlMarshal(x.m[kn])])
    [] x.t = "ent" -> yamlMarshal(SMap(MarshalYAML(x)))

RECURSIVE EncodeFails(_)
\* some MarshalYAML called while x is written returns an error
EncodeFails(x) ==
  CASE x.t = "seq" -> \E i \in 1..Len(x.xs) : EncodeFails(x.xs[i])
    [] x.t \in {"smap", "imap"} -> \E k \in DOMAIN x.m : EncodeFails(x.m[k])
    [] x.t = "ent" -> MarshalYAMLError(x) \/ EncodeFails(SMap(MarshalYAML(x)))
    [] OTHER -> FALSE

RECURSIVE yamlUnmarshalAny(_)
\* yaml.Unmarshal into an interface{}: maps come out with untyped keys
yamlUnmarshalAny(n) ==
  CASE n.t = "ynull" -> NilAny
    [] n.t = "yseq" -> GoSeq([i \in 1..Len(n.xs) |-> yamlUnmarshalAny(n.xs[i])])
    [] n.t = "ymap" -> IMap([kn \in DOMAIN n.m |-> yamlUnmarshalAny(n.m[kn])])
    [] OTHER -> n

\* the entry of a mapping node that ends up under the string key s
KeyNode(n, s) == CHOOSE kn \in DOMAIN n.m : Sprint(kn) = s

StrKeys(n) == {Sprint(kn) : kn \in DOMAIN n.m}

\* "obj := make(map[string]interface{}); unmarshal(&obj)": a type error
\* unless the node is a mapping
unmarshalObj(n) ==
  IF n.t = "ymap"
  THEN Ok([s \in StrKeys(n) |-> yamlUnmarshalAny(n.m[KeyNode(n, s)])])
  ELSE Fail(<< >>)

RECURSIVE jsonMarshalable(_)
\* json.Marshal fails on a map[interface{}]interface{}
jsonMarshalable(x) ==
  CASE x.t = "seq" -> \A i \in 1..Len(x.xs) : jsonMarshalable(x.xs[i])
    [] x.t = "smap" -> \A k \in DOMAIN x.m : jsonMarshalable(x.m[k])
    [] x.t = "imap" -> FALSE
    [] x.t = "ent" -> jsonMarshalable(SMap(MarshalYAML(x)))
    [] OTHER -> TRUE

RECURSIVE jsonMarshal(_)
\* json.Marshal: every nil is written as null; a json.Marshaler (MarshalJSON)
\* is replaced by the encoding of its MarshalYAML map
jsonMarshal(x) ==
  CASE x.t = "nil" -> JNull
    [] x.t = "float" -> GoInt(x.n) \* an integral float64 is printed as 1
    [] x.t = "seq" -> JSeq([i \in 1..Len(x.xs) |-> jsonMarshal(x.xs[i])])
    [] x.t = "smap" -> JObj([k \in DOMAIN x.m |-> jsonMarshal(x.m[k])])
    [] x.t = "ent" -> jsonMarshal(SMap(MarshalYAML(x)))
    [] OTHER -> x

RECURSIVE jsonUnmarshalAny(_)
\* json.Unmarshal into an interface{}: numbers become float64
jsonUnmarshalAny(j) ==
  CASE j.t = "jnull" -> NilAny
    [] j.t = "jseq" -> GoSeq([i \in 1..Len(j.xs) |-> jsonUnmarshalAny(j.xs[i])])
    [] j.t = "jobj" -> SMap([k \in DOMAIN j.m |-> jsonUnmarshalAny(j.m[k])])
    [] j.t = "int" -> GoFloat(j.n)
    [] OTHER -> j


(***************************************************************************)
(* UnmarshalYAML.  Results are [err, v]; on an error v is the destination  *)
(* as the failed call left it.                                             *)
(***************************************************************************)
TEnt(T) == [k |-> "val", child |-> T]
Target(fd) == [k |-> fd.kind, child |-> fd.child]

SetField(r, k, x) == [r EXCEPT !.f[k] = x]

\* Extensions.UnmarshalYAML on a fresh Extensions{}: the x- keys, normalized
ExtensionsUnmarshalYAML(n) ==
  LET o == unmarshalObj(n) IN
  IF o.err THEN Fail(<< >>)
  ELSE Ok([k \in {kk \in DOMAIN o.v : IsExtKey(kk)} |-> cleanupMapValue(o.v[k])])

\* AttachExtensions without the test of len(exts): "r.Extensions = exts"
AttachExtensionsAlways(T, r, n) ==
  [r EXCEPT !.x = SMap(ExtensionsUnmarshalYAML(n).v)]

\* "exts := Extensions{}; unmarshal(&exts); if len(exts) > 0 { r.Extensions = exts }"
AttachExtensions(T, r, n) ==
  LET exts == ExtensionsUnmarshalYAML(n).v IN
  IF T \in AttachesExtensions /\ DOMAIN exts # {}
  THEN [r EXCEPT !.x = SMap(exts)]
  ELSE r

\* CoerceStrings with a type assertion "v.(string)" in place of fmt.Sprint
CoerceStringsAssert(g) ==
  GoSeq([i \in 1..Len(g.xs) |-> IF g.xs[i].t = "str" THEN g.xs[i] ELSE GoStr("")])

\* the elements of a []string field: fmt.Sprint of each source element
CoerceStrings(g) == GoSeq([i \in 1..Len(g.xs) |-> GoStr(Sprint(g.xs[i]))])

\* Discriminator.Mapping: fmt.Sprint of each value of the normalized map
CoerceMapping(c) == SMap([k \in DOMAIN c.m |-> GoStr(Sprint(c.m[k]))])

\* yaml.Unmarshal of a scalar node into a Go string
ScalarToString(n) == IF n.t = "ynull" THEN GoStr("") ELSE GoStr(Sprint(n))

\* the target of a SecurityRequirement under the build's declaration, one of
\* the two declarations in the sources:
\*   map    type SecurityRequirement map[string][]string
\*   list   type SecurityRequirement []string
SecurityRequirementTarget ==
  [k |-> IF decl = "map" THEN "scopes" ELSE "strs", child |-> ""]

\* the kinds of target that are slices and maps
SliceKinds == {"list", "strs", "sec", "secroot"}
MapKinds == {"map", "strmap", "scopes", "reqmap"}

\* the target for the elements of a slice or map target:
\*   list, map   pointers to entities        strmap    strings
\*   sec         *SecurityRequirement        scopes    []string
\*   secroot     map[string]*SecurityRequirement (reqmap)
\*   reqmap      *SecurityRequirement
ElemTarget(tg) ==
  CASE tg.k \in {"list", "map"} -> [k |-> "elem", child |-> tg.child]
    [] tg.k \in {"strmap", "strs"} -> [k |-> "string", child |-> ""]
    [] tg.k \in {"sec", "reqmap"} -> SecurityRequirementTarget
    [] tg.k = "secroot" -> [k |-> "reqmap", child |-> ""]
    [] OTHER -> [k |-> "strs", child |-> ""]

RECURSIVE UnmarshalYAML(_, _, _), Unmarshal(_, _)

\* yaml.Unmarshal(rbytes, &value) into a value of the target type.  A null
\* document sets the zero value without calling UnmarshalYAML, and a null
\* element of a slice or map of pointers stays a nil pointer; a sequence
\* decodes into a slice only and a mapping into a map or an entity only; the
\* first element that fails makes the call fail.
Unmarshal(tg, n) ==
  CASE tg.k \in {"val", "ptr", "elem"} ->
         IF n.t = "ynull"
         THEN Ok(IF tg.k = "elem" THEN NilPtr ELSE Zero(tg.child))
         ELSE UnmarshalYAML(tg.child, Zero(tg.child), n)
    [] tg.k = "string" ->
         IF n.t \in {"yseq", "ymap"} THEN Fail(GoStr("")) ELSE Ok(ScalarToString(n))
    [] tg.k \in SliceKinds ->
         IF n.t = "ynull" THEN Ok(NilSlice)
         ELSE IF n.t # "yseq" THEN Fail(NilSlice)
         ELSE LET rs == [i \in 1..Len(n.xs) |-> Unmarshal(ElemTarget(tg), n.xs[i])]
              IN IF \E i \in 1..Len(n.xs) : rs[i].err THEN Fail(NilSlice)
                 ELSE Ok(GoSeq([i \in 1..Len(n.xs) |-> rs[i].v]))
    [] tg.k \in MapKinds ->
         IF n.t = "ynull" THEN Ok(NilMap)
         ELSE IF n.t # "ymap" THEN Fail(NilMap)
         ELSE LET rs == [kn \in DOMAIN n.m |-> Unmarshal(ElemTarget(tg), n.m[kn])]
              IN IF \E kn \in DOMAIN n.m : rs[kn].err THEN Fail(NilMap)
                 ELSE Ok(SMap([k \in StrKeys(n) |-> rs[KeyNode(n, k)].v]))

\* DecodeField without the blocks that decode a child entity
DecodeFieldShallow(fd, old, g) ==
  CASE fd.kind = "str" -> Ok(IF g.t = "str" THEN g ELSE old)
    [] fd.kind = "bool" -> Ok(IF g.t = "bool" THEN g ELSE old)
    [] OTHER -> Ok(old)

\* one "if value, ok := obj[key]; ok { ... }" block: the new value of the
\* field that holds old, for source value g; an error when the block returns
DecodeField(fd, old, g) ==
  CASE fd.kind = "str" -> Ok(IF g.t = "str" THEN g ELSE old)
    [] fd.kind = "bool" -> Ok(IF g.t = "bool" THEN g ELSE old)
    [] fd.kind = "strs" -> Ok(IF g.t = "seq" THEN CoerceStrings(g) ELSE old)
    [] fd.kind = "anys" -> Ok(IF g.t = "seq" THEN g ELSE old)
    [] fd.kind = "any" -> Ok(IF fd.clean THEN cleanupMapValue(g) ELSE g)
    [] fd.kind = "dmap" ->
         LET c == cleanupMapValue(g) IN
         Ok(IF c.t = "smap" THEN CoerceMapping(c) ELSE old)
    [] OTHER ->
         LET res == Unmarshal(Target(fd), yamlMarshal(g)) IN
         IF res.err THEN Fail(old) ELSE res

\* the field blocks of T's UnmarshalYAML in source order, with the extension
\* block at its place.  Each block writes its own field only, and the first
\* failing block returns: the blocks before it have written r, the blocks
\* after it have not run.
DecodeFields(T, r, obj, n) ==
  LET fs == Fields(T)
      Present(i) == fs[i].key \in DOMAIN obj
      block == [i \in {j \in 1..Len(fs) : Present(j)} |->
                  DecodeField(fs[i], r.f[fs[i].key], obj[fs[i].key])]
      failing == {i \in DOMAIN block : block[i].err}
      stop == IF failing = {} THEN Len(fs) + 1
              ELSE CHOOSE i \in failing : \A j \in failing : i <= j
      ran == {i \in 1..Len(fs) : i < stop /\ Present(i)}
      r1 == [r EXCEPT !.f = [k \in DOMAIN r.f |->
                               IF \E i \in ran : fs[i].key = k
                               THEN block[CHOOSE i \in ran : fs[i].key = k].v
                               ELSE r.f[k]]]
      r2 == IF stop > ExtPos(T) THEN AttachExtensions(T, r1, n) ELSE r1
  IN [err |-> failing # {}, v |-> r2]

StructUnmarshalYAML(T, r, n) ==
  LET o == unmarshalObj(n) IN
  IF o.err THEN Fail(r) ELSE DecodeFields(T, r, o.v, n)

\* PathItems.UnmarshalYAML on a fresh PathItems{}: the whole map is decoded
\* into map[string]*PathItem, then the entries without x- prefix are kept
PathItemsUnmarshalYAML(n) ==
  LET res == Unmarshal([k |-> "map", child |-> "PathItem"], n) IN
  IF res.err \/ n.t # "ymap" THEN Fail(<< >>)
  ELSE Ok([k \in {kk \in DOMAIN res.v.m : ~IsExtKey(kk)} |-> res.v.m[k]])

\* CallbackItems.UnmarshalYAML (the counterpart of PathItems for Callback)
CallbackItemsUnmarshalYAML(n) == PathItemsUnmarshalYAML(n)

PathsUnmarshalYAML(r, n) ==
  LET o == unmarshalObj(n)
      paths == PathItemsUnmarshalYAML(n)
      r1 == IF DOMAIN paths.v # {}
            THEN SetField(r, "PathItems", SMap(paths.v)) ELSE r
  IN IF o.err THEN Fail(r)
     ELSE IF paths.err THEN Fail(r)
     ELSE Ok(AttachExtensions("Paths", r1, n))

CallbackUnmarshalYAML(r, n) ==
  LET o == unmarshalObj(n)
      r1 == IF "$ref" \in DOMAIN o.v
            THEN SetField(r, "$ref",
                          DecodeField(S("$ref"), r.f["$ref"], o.v["$ref"]).v)
            ELSE r
      items == CallbackItemsUnmarshalYAML(n)
      r2 == IF DOMAIN items.v # {}
            THEN SetField(r1, "CallbackItems", SMap(items.v)) ELSE r1
  IN IF o.err THEN Fail(r)
     ELSE IF items.err THEN Fail(r1)
     ELSE Ok(AttachExtensions("Callback", r2, n))

\* (r *T) UnmarshalYAML with the document node n behind the unmarshal callback
UnmarshalYAML(T, r, n) ==
  CASE T = "Paths" -> PathsUnmarshalYAML(r, n)
    [] T = "Callback" -> CallbackUnmarshalYAML(r, n)
    [] OTHER -> StructUnmarshalYAML(T, r, n)

\* (r T) MarshalJSON: json.Marshal of the MarshalYAML map
MarshalJSON(v) ==
  IF jsonMarshalable(v) /\ ~EncodeFails(v) THEN Ok(jsonMarshal(v)) ELSE Fail(JNull)

\* (r *T) UnmarshalJSON: json.Unmarshal into a map, yaml.Marshal of that map,
\* and UnmarshalYAML over the resulting document
UnmarshalJSON(T, r, j) ==
  IF j.t \notin {"jobj", "jnull"} THEN Fail(r)
  ELSE LET obj == IF j.t = "jobj" THEN jsonUnmarshalAny(j) ELSE SMap(<< >>)
       IN UnmarshalYAML(T, r, yamlMarshal(obj))

\* Extensions.MarshalYAML that copies every entry, as the entities' encoders do
ExtensionsMarshalYAMLUnfiltered(e) == MapEntries(e)

\* (r Extensions) MarshalYAML: the entries under keys with the x- prefix
ExtensionsMarshalYAML(e) ==
  [k \in {kk \in DOMAIN MapEntries(e) : IsExtKey(kk)} |-> e.m[k]]

\* (r Extensions) MarshalJSON: json.Marshal of the MarshalYAML map
ExtensionsMarshalJSON(e) ==
  LET obj == SMap(ExtensionsMarshalYAML(e)) IN
  IF jsonMarshalable(obj) THEN Ok(jsonMarshal(obj)) ELSE Fail(JNull)

\* yaml.Unmarshal(rbytes, &Extensions{}): the destination is an allocated
\* map, which a null document leaves as it is
ExtensionsUnmarshal(n) ==
  IF n.t = "ynull" THEN Ok(SMap(<< >>))
  ELSE LET res == ExtensionsUnmarshalYAML(n) IN
       [err |-> res.err, v |-> SMap(res.v)]

\* (r *Extensions) UnmarshalJSON on &Extensions{}
ExtensionsUnmarshalJSON(j) ==
  IF j.t \notin {"jobj", "jnull"} THEN Fail(SMap(<< >>))
  ELSE LET obj == IF j.t = "jobj" THEN jsonUnmarshalAny(j) ELSE SMap(<< >>)
       IN ExtensionsUnmarshal(yamlMarshal(obj))

\* (r SecurityRequirement) Clone: the receiver is a map[string][]string and
\* value := SecurityRequirement{} an empty map, which an empty document
\* leaves as it is
SecurityRequirementClone(v) ==
  LET res == Unmarshal([k |-> "scopes", child |-> ""], yamlMarshal(v)) IN
  IF res.err THEN res ELSE Ok(SMap(MapEntries(res.v)))

\* Clone as a copy of the struct alone: "value := r; return &value"
ShallowClone(v) == Ok(v)

\* (r T) Clone: yaml.Marshal(r), then yaml.Unmarshal into a fresh T{}
Clone(v) ==
  IF v.t = "ent" THEN Unmarshal(TEnt(v.ty), yamlMarshal(v))
  ELSE SecurityRequirementClone(v)

(***************************************************************************)
(* Memory.  The maps, slices and structs of the receiver of Clone carry    *)
(* the mark a; a value built by a decoder is new memory and carries none.  *)
(* A reference found in the result with the mark is memory of the          *)
(* original, and a write through it is a write to the original.            *)
(***************************************************************************)
RECURSIVE Mark(_)
Mark(v) ==
  CASE v.t = "seq" ->
         [t |-> "seq", xs |-> [i \in 1..Len(v.xs) |-> Mark(v.xs[i])], a |-> "r"]
    [] v.t \in {"smap", "imap"} ->
         [t |-> v.t, m |-> [k \in DOMAIN v.m |-> Mark(v.m[k])], a |-> "r"]
    [] v.t = "ent" ->
         [t |-> "ent", ty |-> v.ty, f |-> [k \in DOMAIN v.f |-> Mark(v.f[k])],
          x |-> Mark(v.x), a |-> "r"]
    [] OTHER -> v

IsShared(v) == "a" \in DOMAIN v

RECURSIVE Shares(_)
\* some map, slice or struct inside v is memory of the original
Shares(v) ==
  \/ IsShared(v)
  \/ CASE v.t = "seq" -> \E i \in 1..Len(v.xs) : Shares(v.xs[i])
       [] v.t \in {"smap", "imap"} -> \E k \in DOMAIN v.m : Shares(v.m[k])
       [] v.t = "ent" -> (\E k \in DOMAIN v.f : Shares(v.f[k])) \/ Shares(v.x)
       [] OTHER -> FALSE

\* the reference-typed parts of a value a caller can write through
Handles(v) ==
  IF v.t = "ent"
  THEN {k \in DOMAIN v.f : v.f[k].t \in {"seq", "smap", "imap", "ent"}}
       \cup (IF v.x.t = "smap" THEN {"Extensions"} ELSE {})
  ELSE IF v.t = "smap" THEN {"."} ELSE {}

Get(v, h) == IF h = "." THEN v ELSE IF h = "Extensions" THEN v.x ELSE v.f[h]

Put(v, h, x) ==
  IF h = "." THEN x
  ELSE IF h = "Extensions" THEN [v EXCEPT !.x = x] ELSE [v EXCEPT !.f[h] = x]

\* the value a caller stores over an element
Overwrite(e) ==
  CASE e.t = "str" -> GoStr("mutated")
    [] e.t = "int" -> GoInt(e.n + 1)
    [] e.t = "bool" -> GoBool(~e.b)
    [] e.t = "ent" -> NilPtr
    [] e.t = "seq" -> NilSlice
    [] e.t \in {"smap", "imap"} -> NilMap
    [] OTHER -> GoStr("mutated")

\* a write through a reference: s[0] = .., m[k] = .., p.Extensions = ..
Touch(x) ==
  CASE x.t = "seq" ->
         IF Len(x.xs) = 0 THEN x ELSE [x EXCEPT !.xs[1] = Overwrite(@)]
    [] x.t \in {"smap", "imap"} ->
         IF DOMAIN x.m = {} THEN [x EXCEPT !.m = "mutated" :> GoStr("mutated")]
         ELSE LET k == CHOOSE kk \in DOMAIN x.m : TRUE
              IN [x EXCEPT !.m[k] = Overwrite(@)]
    [] x.t = "ent" -> [x EXCEPT !.x = SMap("x-mutated" :> GoInt(1))]
    [] OTHER -> x


(***************************************************************************)
(* Inputs: the entities a caller constructs and the documents it receives  *)
(***************************************************************************)
\* bound on the length of the lists a caller builds
MaxLen == 1

WithField(v, k, x) == [v EXCEPT !.f[k] = x]
WithExtensions(v, e) == [v EXCEPT !.x = e]

\* extension bags a caller attaches; the last one breaks the x- convention
ExtBags ==
  { SMap("x-a" :> GoInt(1)),
    SMap("X-b" :> SMap("k" :> GoStr("v"))),
    SMap("x-a" :> GoSeq(<< GoStr("v") >>)),
    SMap(<< >>),
    SMap("foo" :> GoInt(1)) }

\* free-form values for interface{} fields
FreeValues ==
  { GoInt(1), GoFloat(1), GoStr("a"), GoBool(TRUE), SMap("k" :> GoInt(1)),
    GoSeq(<< GoStr("v") >>) }

ScopeMaps == { SMap(<< >>), SMap("s" :> GoSeq(<< GoStr("a") >>)) }

\* the SecurityRequirement values of the build: maps from scheme name to
\* scopes, or lists of scopes
RequirementValues ==
  IF decl = "map" THEN ScopeMaps ELSE { GoSeq(<< >>), GoSeq(<< GoStr("a") >>) }

\* the non-empty lists of one repeated element
Lists(elems) == {GoSeq([i \in 1..n |-> e]) : n \in 1..MaxLen, e \in elems}

\* the values a caller assigns to a field; Kids(T) are the child entities
FieldValues(fd, Kids(_)) ==
  CASE fd.kind = "str" -> {GoStr("a")}
    [] fd.kind = "bool" -> {GoBool(TRUE)}
    [] fd.kind \in {"ptr", "val"} -> Kids(fd.child)
    [] fd.kind = "list" -> {GoSeq(<< >>)} \cup Lists(Kids(fd.child))
    [] fd.kind = "map" ->
         {SMap(<< >>)} \cup {SMap("k" :> c) : c \in Kids(fd.child)}
    [] fd.kind \in {"strmap", "dmap"} ->
         {SMap(<< >>), SMap("k" :> GoStr("v"))}
    [] fd.kind = "strs" -> {GoSeq(<< >>)} \cup Lists({GoStr("a")})
    [] fd.kind = "anys" -> {GoSeq(<< >>)} \cup Lists({GoInt(1)})
    [] fd.kind = "any" -> FreeValues
    [] fd.kind = "sec" -> {GoSeq(<< >>)} \cup Lists(RequirementValues)
    [] fd.kind = "secroot" ->
         {GoSeq(<< >>)} \cup
         Lists({SMap("s" :> r) : r \in {x \in RequirementValues : GoLen(x) > 0}})

\* T{}, and T{} with one field or the extension bag assigned, and T{} with
\* its first field assigned and that field's key in the extension bag
Assign(T, Kids(_)) ==
  {Zero(T)}
  \cup (IF HasExtensions(T) /\ T \in StructTypes
        THEN {WithExtensions(WithField(Zero(T), Fields(T)[1].key, x),
                             SMap(Fields(T)[1].key :> GoStr("b"))) :
                x \in FieldValues(Fields(T)[1], Kids)}
        ELSE {})
  \cup UNION {{WithField(Zero(T), Fields(T)[i].key, x) :
                 x \in FieldValues(Fields(T)[i], Kids)} :
              i \in 1..Len(Fields(T))}
  \cup (IF HasExtensions(T)
        THEN {WithExtensions(Zero(T), e) : e \in ExtBags} ELSE {})

Leaf(T) == {Zero(T)}

\* the child entities a caller assigns: themselves with one assignment
Children(T) == Assign(T, Leaf)

\* the entities a caller builds
Values(T) == Assign(T, Children)

\* the values under the keys of a received document
DocValues ==
  { GoStr("a"), GoInt(1), GoFloat(1), GoBool(TRUE), NilAny, SMap(<< >>),
    SMap("k" :> GoInt(1)), GoSeq(<< GoStr("v") >>),
    GoSeq(<< GoInt(8443), GoStr("443"), GoBool(TRUE) >>) }

\* the keys of a received document: the known keys of T, two extension
\* keys and an unknown key
DocKeys(T) == (Keys(T) \ {"PathItems", "CallbackItems"}) \cup {"x-foo", "X-Bar", "foo"}

\* a second entry next to the first: an extension, an unknown key, or the
\* first known key with a string
Probes(T) ==
  { << >>, "x-foo" :> GoStr("e"), "foo" :> GoStr("u"),
    Fields(T)[1].key :> GoStr("s") } \ { "PathItems" :> GoStr("s") }

\* documents of one or two entries, as the generic map json.Unmarshal or
\* yaml.Unmarshal would produce
Docs(T) ==
  { SMap(p) : p \in Probes(T) } \cup
  { SMap((k :> x) @@ p) : k \in DocKeys(T), x \in DocValues, p \in Probes(T) }

RECURSIVE YamlDoc(_)
\* the YAML text of a document: every scalar written as it is given
YamlDoc(d) ==
  CASE d.t = "seq" -> YSeq([i \in 1..Len(d.xs) |-> YamlDoc(d.xs[i])])
    [] d.t = "smap" -> YMap([kn \in {GoStr(k) : k \in DOMAIN d.m} |-> YamlDoc(d.m[kn.s])])
    [] d.t = "nil" -> YNull
    [] OTHER -> d

RECURSIVE JsonDoc(_)
\* the JSON text of the same document
JsonDoc(d) ==
  CASE d.t = "seq" -> JSeq([i \in 1..Len(d.xs) |-> JsonDoc(d.xs[i])])
    [] d.t = "smap" -> JObj([k \in DOMAIN d.m |-> JsonDoc(d.m[k])])
    [] d.t = "nil" -> JNull
    [] OTHER -> d

\* Paths documents as in the package's tests: a path next to an extension
\* whose value is a map
PathsDocs ==
  { SMap(("/a" :> i) @@ (e :> x)) :
      i \in {SMap(<< >>), SMap("summary" :> GoStr("s"))},
      e \in {"x-foo", "X-Bar"},
      x \in {SMap(<< >>), SMap("k" :> GoInt(1))} }

\* documents with an explicitly empty sequence: "servers: []"
EmptyListDocs(T) ==
  { SMap(Fields(T)[i].key :> GoSeq(<< >>)) :
      i \in {j \in 1..Len(Fields(T)) : Fields(T)[j].kind \in {"list", "strs", "anys"}} }

\* the documents received for an entity type; for OpenAPI also the minimal
\* document: openapi, info with title and version, empty paths
Received(T) ==
  Docs(T) \cup (IF T = "OpenAPI"
               THEN {SMap([openapi |-> GoStr("3.0.2"),
                           info |-> SMap([title |-> GoStr("t"),
                                          version |-> GoStr("1")]),
                           paths |-> SMap(<< >>)])}
               ELSE {})
          \cup EmptyListDocs(T)
          \cup (IF T = "Paths" THEN PathsDocs ELSE {})
          \* a security declaration: two alternatives, the first with
          \* two scopes
          \cup (IF T \in {"Operation", "OpenAPI"}
                THEN {SMap("security" :>
                        GoSeq(<< SMap("a" :> GoSeq(<< GoStr("w"), GoStr("r") >>)),
                                 SMap("b" :> GoSeq(<< >>)) >>))}
                ELSE {})


\* a security requirement: scheme name to scopes
SecurityRequirements ==
  {IF decl = "map" THEN NilMap ELSE NilSlice} \cup RequirementValues

\* bound on the nesting of the schemas a caller builds
MaxDepth == 3

\* the fields through which a Schema holds child schemas
SchemaLinks ==
  {"items", "not", "additionalProperties", "properties", "allOf", "anyOf",
   "oneOf"}

\* Schema{<link>: c}: c behind a pointer, as a map entry or as list elements
Wrap(k, c) ==
  WithField(Zero("Schema"), k,
            CASE FieldOf("Schema", k).kind = "map" -> SMap("k" :> c)
              [] FieldOf("Schema", k).kind = "list" ->
                   GoSeq([i \in 1..MaxLen |-> c])
              [] OTHER -> c)

RECURSIVE Chain(_, _, _)
\* d schemas nested through the links k1, k2, k1, ..., the last one
\* Schema{Type: "a"}
Chain(k1, k2, d) ==
  IF d <= 1 THEN WithField(Zero("Schema"), "type", GoStr("a"))
  ELSE Wrap(k1, Chain(k2, k1, d - 1))

\* schemas nested three levels deep and deeper
DeepSchemas ==
  {Chain(k1, k2, d) : k1 \in SchemaLinks, k2 \in {"items", "properties", "allOf"},
                      d \in 3..MaxDepth}

\* Paths values with entries and an extension bag at once: under keys of
\* their own, and under one key
PathsWithBag ==
  { WithExtensions(WithField(Zero("Paths"), "PathItems", SMap(k :> Zero("PathItem"))),
                   SMap(e :> GoInt(1))) :
      k \in {"/a", "x-a"}, e \in {"x-a", "/a"} }

\* Callback values with Ref and an entry at once: the entry under an
\* expression, and under the key $ref
CallbacksWithRef ==
  { WithField(WithField(Zero("Callback"), "$ref", GoStr("a")),
              "CallbackItems", SMap(k :> Zero("PathItem"))) :
      k \in {"/a", "$ref"} }

Inputs(T) ==
  CASE T = "SecurityRequirement" -> SecurityRequirements
    [] T = "Schema" -> Values(T) \cup DeepSchemas
    [] T = "Paths" -> Values(T) \cup PathsWithBag
    [] T = "Callback" -> Values(T) \cup CallbacksWithRef
    [] OTHER -> Values(T)

(***************************************************************************)
(* Decode calls on goroutines of their own.  The package declares no       *)
(* variable at package level: all a call of UnmarshalYAML works with is    *)
(* its receiver r, the unmarshal callback over its document, and its       *)
(* locals obj, paths and exts.                                             *)
(***************************************************************************)
Threads == {1, 2}

\* a goroutine that has not called yet
ThreadIdle ==
  [pc |-> "idle", T |-> "", n |-> YNull, obj |-> << >>, r |-> None, i |-> 0,
   err |-> FALSE]

\* the entity types decoded concurrently
ThreadTypes == {"Info", "Paths", "Callback"}

\* the documents decoded concurrently: an extension next to a probe entry
\* or to a path, and a document that is not a map
ThreadDocs(T) ==
  { YamlDoc(SMap(("x-foo" :> x) @@ p)) :
      x \in {GoStr("a"), SMap("k" :> GoInt(1))},
      p \in Probes(T) \cup {"/p" :> SMap("summary" :> GoStr("s"))} }
  \cup { YSeq(<< >>) }

\* obj held in a variable at package level: the map of the first goroutine
ThreadObjPackageLevel(t) == th[1].obj

\* "obj := make(map[string]interface{})": the local of goroutine t's call
ThreadObj(t) == th[t].obj

\* the end of a block that decoded res for the field k of r: the error is
\* returned, or the field is written (the entries only when there are some)
StoreBlock(r, k, res, entries) ==
  IF res.err THEN Fail(r)
  ELSE IF entries
  THEN Ok(IF DOMAIN res.v # {} THEN SetField(r, k, SMap(res.v)) ELSE r)
  ELSE Ok(SetField(r, k, res.v))

\* the block at position i of T's UnmarshalYAML, run on receiver r: a field
\* block, or for Paths and Callback the decoding of the entries
RunBlock(T, r, obj, n, i) ==
  LET fd == Fields(T)[i] IN
  IF fd.key \in {"PathItems", "CallbackItems"}
  THEN StoreBlock(r, fd.key, PathItemsUnmarshalYAML(n), TRUE)
  ELSE IF fd.key \notin DOMAIN obj THEN Ok(r)
  ELSE StoreBlock(r, fd.key, DecodeField(fd, r.f[fd.key], obj[fd.key]), FALSE)

(***************************************************************************)
(* The caller.  It follows the repository's tests: an entity is built,     *)
(* encoded to JSON and decoded, encoded to YAML and decoded; or it is      *)
(* cloned and one side is written to; or a document is received and        *)
(* decoded from both formats.                                              *)
(***************************************************************************)
Init ==
  /\ fields = [T \in Types |-> FieldTable(T)]
  /\ pc = "idle"
  /\ ty = ""
  /\ val = None
  /\ jsonBytes = None
  /\ yamlBytes = None
  /\ dstJ = None
  /\ dstY = None
  /\ cl = None
  /\ arg = None
  /\ ret = None
  /\ th = [t \in Threads |-> ThreadIdle]
  /\ decl \in {"map", "list"}

\* the caller builds an entity in memory
Construct ==
  /\ pc = "idle"
  /\ \E T \in Types \cup {"SecurityRequirement"} : \E v \in Inputs(T) :
       /\ ty' = T
       /\ val' = v
  /\ pc' = "built"
  /\ UNCHANGED <<jsonBytes, yamlBytes, dstJ, dstY, cl, fields, decl, arg, ret, th>>

\* the caller receives one document in both formats
Receive ==
  /\ pc = "idle"
  /\ \E T \in Types : \E d \in Received(T) :
       /\ ty' = T
       /\ jsonBytes' = Ok(JsonDoc(d))
       /\ yamlBytes' = Ok(YamlDoc(d))
  /\ pc' = "received"
  /\ UNCHANGED <<val, dstJ, dstY, cl, fields, decl, arg, ret, th>>

\* json.Marshal(val)
CallJsonMarshal ==
  /\ pc = "built"
  /\ ty \in Types
  /\ jsonBytes' = MarshalJSON(val)
  /\ pc' = "jsonEnc"
  /\ UNCHANGED <<ty, val, yamlBytes, dstJ, dstY, cl, fields, decl, arg, ret, th>>

\* json.Unmarshal(jsonBytes, &T{})
CallJsonUnmarshal ==
  /\ pc \in {"jsonEnc", "received"}
  /\ ~jsonBytes.err
  /\ dstJ' = UnmarshalJSON(ty, Zero(ty), jsonBytes.v)
  /\ pc' = "jsonDec"
  /\ UNCHANGED <<ty, val, jsonBytes, yamlBytes, dstY, cl, fields, decl, arg, ret, th>>

\* yaml.Marshal(val)
CallYamlMarshal ==
  /\ val # None
  /\ \/ pc = "jsonDec"
     \/ pc = "jsonEnc" /\ jsonBytes.err
  /\ yamlBytes' = IF EncodeFails(val) THEN Fail(YNull) ELSE Ok(yamlMarshal(val))
  /\ pc' = "yamlEnc"
  /\ UNCHANGED <<ty, val, jsonBytes, dstJ, dstY, cl, fields, decl, arg, ret, th>>

\* yaml.Unmarshal(yamlBytes, &T{})
CallYamlUnmarshal ==
  /\ \/ pc = "yamlEnc"
     \/ pc = "jsonDec" /\ val = None
  /\ dstY' = Unmarshal(TEnt(ty), yamlBytes.v)
  /\ pc' = "yamlDec"
  /\ UNCHANGED <<ty, val, jsonBytes, yamlBytes, dstJ, cl, fields, decl, arg, ret, th>>

\* val.Clone()
CallClone ==
  /\ pc = "built"
  /\ ty \in {"PathItem", "Operation", "Server", "ServerVariable", "Example",
            "License", "Link", "RequestBody", "OAuthFlow", "OAuthFlows",
            "Discriminator", "SecurityRequirement"}
  /\ ty = "SecurityRequirement" => decl = "map"
  /\ cl' = Clone(Mark(val))
  /\ pc' = "cloned"
  /\ UNCHANGED <<ty, val, jsonBytes, yamlBytes, dstJ, dstY, fields, decl, arg, ret, th>>

\* the caller writes through a reference held by the clone
MutateClone ==
  /\ pc = "cloned"
  /\ ~cl.err
  /\ \E h \in Handles(cl.v) :
       /\ cl' = [cl EXCEPT !.v = Put(@, h, Touch(Get(@, h)))]
       /\ val' = IF IsShared(Get(cl.v, h))
                 THEN Put(val, h, Touch(Get(val, h))) ELSE val
  /\ pc' = "mutated"
  /\ UNCHANGED <<ty, jsonBytes, yamlBytes, dstJ, dstY, fields, decl, arg, ret, th>>

\* the caller writes through a reference held by the original
MutateOriginal ==
  /\ pc = "cloned"
  /\ ~cl.err
  /\ \E h \in Handles(val) :
       /\ val' = Put(val, h, Touch(Get(val, h)))
       /\ cl' = IF h \in Handles(cl.v) /\ IsShared(Get(cl.v, h))
                THEN [cl EXCEPT !.v = Put(@, h, Touch(Get(@, h)))] ELSE cl
  /\ pc' = "mutated"
  /\ UNCHANGED <<ty, jsonBytes, yamlBytes, dstJ, dstY, fields, decl, arg, ret, th>>

\* the values handed to the normalizer as yaml.Unmarshal produces them:
\* scalars, nil, sequences and maps with untyped keys, nested
RawValues ==
  LET leaves == { GoStr("a"), GoInt(1), GoBool(TRUE), NilAny, GoSeq(<< >>),
                  IMap(<< >>) }
      maps == { IMap(GoInt(1) :> x) : x \in leaves } \cup
              { IMap((GoStr("k") :> x) @@ (GoBool(TRUE) :> GoInt(2))) : x \in leaves }
      seqs == { GoSeq(<< x >>) : x \in leaves \cup maps } \cup
              { GoSeq(<< x, y >>) : x \in {GoInt(1)}, y \in maps }
      deep == { IMap(GoStr("k") :> x) : x \in maps \cup seqs } \cup
              { GoSeq(<< x >>) : x \in seqs }
  IN leaves \cup maps \cup seqs \cup deep

\* string-keyed maps, as json.Unmarshal or a caller produces them, some
\* holding a map with untyped keys
TypedValues ==
  { SMap(<< >>), SMap("k" :> GoInt(1)), SMap("k" :> IMap(<< >>)),
    SMap("k" :> IMap(GoInt(1) :> GoStr("a"))) }

\* maps in which two keys have one string form (the integer 1 and the
\* string "1", true and "true"), in either order of iteration
CollidingValues ==
  { [t |-> "imap", m |-> (p[1] :> GoStr("a")) @@ (p[2] :> GoStr("b")),
     ord |-> IF first THEN << p[1], p[2] >> ELSE << p[2], p[1] >>] :
      p \in {<< GoInt(1), GoStr("1") >>, << GoBool(TRUE), GoStr("true") >>},
      first \in BOOLEAN }

\* cleanupMapValue(v)
CallCleanup ==
  /\ pc = "idle"
  /\ \E kind \in {"raw", "typed", "colliding"} :
       \E v \in CASE kind = "raw" -> RawValues
                  [] kind = "typed" -> TypedValues
                  [] OTHER -> CollidingValues :
         /\ arg' = v
         /\ ret' = cleanupMapValue(v)
  /\ pc' = "cleaned"
  /\ UNCHANGED <<ty, val, jsonBytes, yamlBytes, dstJ, dstY, cl, fields, decl, th>>

\* Extensions values, and the documents received for Extensions: one value
\* under every key of a set of keys
ExtensionsValues ==
  { SMap([k \in ks |-> x]) :
      ks \in SUBSET {"x-foo", "X-Foo", "foo", "xfoo"},
      x \in {GoInt(1), GoSeq(<< GoStr("v") >>), SMap("k" :> GoStr("v"))} }

\* json.Marshal(e) and yaml.Marshal(e) of an Extensions value e
ExtensionsMarshal ==
  /\ pc = "idle"
  /\ \E e \in ExtensionsValues :
       /\ val' = e
       /\ jsonBytes' = ExtensionsMarshalJSON(e)
       /\ yamlBytes' = Ok(yamlMarshal(SMap(ExtensionsMarshalYAML(e))))
  /\ ty' = "Extensions"
  /\ pc' = "extEnc"
  /\ UNCHANGED <<dstJ, dstY, cl, fields, decl, arg, ret, th>>

\* the caller receives one document for an Extensions value in both formats
ExtensionsReceive ==
  /\ pc = "idle"
  /\ \E d \in ExtensionsValues :
       /\ jsonBytes' = Ok(JsonDoc(d))
       /\ yamlBytes' = Ok(YamlDoc(d))
  /\ ty' = "Extensions"
  /\ pc' = "extEnc"
  /\ UNCHANGED <<val, dstJ, dstY, cl, fields, decl, arg, ret, th>>

\* json.Unmarshal(jsonBytes, &Extensions{}) and
\* yaml.Unmarshal(yamlBytes, &Extensions{})
ExtensionsDecode ==
  /\ pc = "extEnc"
  /\ ~jsonBytes.err
  /\ dstJ' = ExtensionsUnmarshalJSON(jsonBytes.v)
  /\ dstY' = ExtensionsUnmarshal(yamlBytes.v)
  /\ pc' = "extDec"
  /\ UNCHANGED <<ty, val, jsonBytes, yamlBytes, cl, fields, decl, arg, ret, th>>

\* the caller goes on with the entity it decoded
Adopt ==
  /\ pc = "yamlDec"
  /\ val = None
  /\ ~dstY.err
  /\ val' = dstY.v
  /\ pc' = "built"
  /\ jsonBytes' = None
  /\ yamlBytes' = None
  /\ dstJ' = None
  /\ dstY' = None
  /\ UNCHANGED <<ty, cl, fields, decl, arg, ret, th>>

\* the caller drops everything and starts over
Reset ==
  /\ pc # "idle"
  /\ pc' = "idle"
  /\ ty' = ""
  /\ val' = None
  /\ jsonBytes' = None
  /\ yamlBytes' = None
  /\ dstJ' = None
  /\ dstY' = None
  /\ cl' = None
  /\ arg' = None
  /\ ret' = None
  /\ UNCHANGED <<fields, decl, th>>

Next ==
  \/ Construct
  \/ Receive
  \/ CallJsonMarshal
  \/ CallJsonUnmarshal
  \/ CallYamlMarshal
  \/ CallYamlUnmarshal
  \/ CallClone
  \/ MutateClone
  \/ MutateOriginal
  \/ CallCleanup
  \/ ExtensionsMarshal
  \/ ExtensionsReceive
  \/ ExtensionsDecode
  \/ Adopt
  \/ Reset

Spec == Init /\ [][Next]_vars

\* goroutine t calls yaml.Unmarshal(doc, &T{})
ThreadStart(t) ==
  /\ th[t].pc = "idle"
  /\ \E T \in ThreadTypes : \E n \in ThreadDocs(T) :
       th' = [th EXCEPT ![t] =
                [pc |-> "obj", T |-> T, n |-> n, obj |-> << >>, r |-> Zero(T),
                 i |-> 0, err |-> FALSE]]
  /\ UNCHANGED <<pc, ty, val, jsonBytes, yamlBytes, dstJ, dstY, cl, fields, decl, arg, ret>>

\* "if err := unmarshal(&obj); err != nil { return ... }"
ThreadUnmarshalObj(t) ==
  /\ th[t].pc = "obj"
  /\ LET o == unmarshalObj(th[t].n) IN
     th' = [th EXCEPT ![t] =
              IF o.err THEN [@ EXCEPT !.pc = "done", !.err = TRUE]
              ELSE [@ EXCEPT !.pc = "blocks", !.obj = o.v, !.i = 1]]
  /\ UNCHANGED <<pc, ty, val, jsonBytes, yamlBytes, dstJ, dstY, cl, fields, decl, arg, ret>>

\* the next block of the call: it returns the error, or goes on to the
\* extension block, to the following block, or to "return nil"
ThreadBlock(t) ==
  /\ th[t].pc = "blocks"
  /\ LET c == th[t] IN
     \E res \in {RunBlock(c.T, c.r, ThreadObj(t), c.n, c.i)} :
       th' = [th EXCEPT ![t] =
                IF res.err THEN [@ EXCEPT !.pc = "done", !.err = TRUE]
                ELSE [@ EXCEPT !.r = res.v,
                               !.i = c.i + 1,
                               !.pc = IF c.i = ExtPos(c.T) THEN "exts"
                                      ELSE IF c.i = Len(Fields(c.T)) THEN "done"
                                      ELSE "blocks"]]
  /\ UNCHANGED <<pc, ty, val, jsonBytes, yamlBytes, dstJ, dstY, cl, fields, decl, arg, ret>>

\* "exts := Extensions{}; unmarshal(&exts); if len(exts) > 0 { ... }"
ThreadExtensions(t) ==
  /\ th[t].pc = "exts"
  /\ LET c == th[t] IN
     th' = [th EXCEPT ![t] =
              [@ EXCEPT !.r = AttachExtensions(c.T, c.r, c.n),
                        !.pc = IF c.i > Len(Fields(c.T)) THEN "done"
                               ELSE "blocks"]]
  /\ UNCHANGED <<pc, ty, val, jsonBytes, yamlBytes, dstJ, dstY, cl, fields, decl, arg, ret>>

\* the caller of goroutine t takes the result
ThreadReturn(t) ==
  /\ th[t].pc = "done"
  /\ th' = [th EXCEPT ![t] = ThreadIdle]
  /\ UNCHANGED <<pc, ty, val, jsonBytes, yamlBytes, dstJ, dstY, cl, fields, decl, arg, ret>>

NextThreads ==
  \E t \in Threads :
    \/ ThreadStart(t)
    \/ ThreadUnmarshalObj(t)
    \/ ThreadBlock(t)
    \/ ThreadExtensions(t)
    \/ ThreadReturn(t)

\* two goroutines that decode, scheduled in any order
SpecThreads == Init /\ [][NextThreads]_vars


(***************************************************************************)
(* Properties                                                              *)
(***************************************************************************)
\* the caller built val and has encoded and decoded it in both formats
RoundTripDone == pc = "yamlDec" /\ val # None

\* the caller received a document and has decoded it from both formats
DocDecoded == pc = "yamlDec" /\ val = None

\* the keys of an encoded document
EncodedKeys(b) == {Sprint(kn) : kn \in DOMAIN b.v.m}

HasKey(b, k) == GoStr(k) \in DOMAIN b.v.m

\* the document without the entry k
WithoutKey(n, k) == YMap([kn \in DOMAIN n.m \ {GoStr(k)} |-> n.m[kn]])

RECURSIVE ValidValue(_)
\* a value without untyped maps whose extension bags hold only x- keys
ValidValue(v) ==
  CASE v.t = "ent" ->
         /\ v.x.t = "smap" => \A k \in DOMAIN v.x.m : IsExtKey(k) /\ ValidValue(v.x.m[k])
         /\ \A k \in DOMAIN v.f : ValidValue(v.f[k])
    [] v.t = "seq" -> \A i \in 1..Len(v.xs) : ValidValue(v.xs[i])
    [] v.t = "smap" -> \A k \in DOMAIN v.m : ValidValue(v.m[k])
    [] v.t = "imap" -> FALSE
    [] OTHER -> TRUE

\* C1 (as stated): for every entity type and every valid value v, decoding
\* the JSON encoding of v and decoding the YAML encoding of v both yield a
\* value equal to v, extension bag, nil required maps and empty non-nil
\* collections included.
C1_RoundTripLaw ==
  (RoundTripDone /\ ValidValue(val)) =>
    /\ ~jsonBytes.err
    /\ ~dstJ.err /\ dstJ.v = val
    /\ ~dstY.err /\ dstY.v = val

\* C2 (as stated): the entity decoded from the JSON encoding of v is
\* identical to the entity decoded from the YAML encoding of v, and the
\* JSON form and the YAML form of one document decode to identical entities.
C2_FormatConsistency ==
  (pc = "yamlDec" /\ dstJ # None) => dstJ = dstY

\* the entity types the extension capture is stated for
ExtensionCarriers == StructTypes \ {"Discriminator", "SecurityScheme"}

\* C3 (as stated): for every entity type that carries an extension bag, a
\* key x-foo of the input map appears in the decoded entity's Extensions
\* under the same key, holding the normalized value.
C3_ExtensionCapture ==
  (DocDecoded /\ ty \in ExtensionCarriers /\ HasKey(yamlBytes, "x-foo")
     /\ ~dstY.err) =>
    /\ dstY.v.x.t = "smap"
    /\ "x-foo" \in DOMAIN dstY.v.x.m
    /\ dstY.v.x.m["x-foo"] =
         cleanupMapValue(yamlUnmarshalAny(yamlBytes.v.m[GoStr("x-foo")]))

\* C4 (as stated): for every entity decoder, Paths and Callback included, a
\* key without x- prefix that is no field name of the entity appears neither
\* in the extension bag nor in a typed field, and its presence is no decode
\* error: the result is the result for the document without the key.
C4_UnknownKeyDiscard ==
  (DocDecoded /\ HasKey(yamlBytes, "foo")) =>
    dstY = Unmarshal(TEnt(ty), WithoutKey(yamlBytes.v, "foo"))

\* the collection in which Paths and Callback keep their entries
ItemsField(T) == IF T = "Paths" THEN "PathItems" ELSE "CallbackItems"

\* C4 (amended): for every entity decoder with a fixed set of fields the
\* result of decoding is the result for the document without the unknown
\* key; Paths and Callback take every key without x- prefix as an entry:
\* decoding fails if the value does not decode as a PathItem, and when
\* decoding succeeds the key is stored among the entries.
C4_UnknownKeyDiscardFixedFields ==
  (DocDecoded /\ HasKey(yamlBytes, "foo")) =>
    IF ty \in StructTypes
    THEN dstY = Unmarshal(TEnt(ty), WithoutKey(yamlBytes.v, "foo"))
    ELSE /\ Unmarshal([k |-> "ptr", child |-> "PathItem"],
                        yamlBytes.v.m[GoStr("foo")]).err => dstY.err
         /\ ~dstY.err =>
              /\ dstY.v.f[ItemsField(ty)].t = "smap"
              /\ "foo" \in DOMAIN dstY.v.f[ItemsField(ty)].m

\* C4 witness: an Info document with a title and an unknown key decoded
\* without error into an entity with that title and no extension bag
C4_Witness ==
  /\ DocDecoded /\ ty = "Info" /\ HasKey(yamlBytes, "foo")
  /\ ~dstY.err
  /\ dstY.v.f["title"] = GoStr("a")
  /\ dstY.v.x = NilMap


\* the keys the encoders are required to emit even when empty
RequiredKeys(T) ==
  CASE T = "OpenAPI" -> {"openapi", "info", "paths"}
    [] T = "Info" -> {"title", "version"}
    [] T = "Response" -> {"description"}
    [] T = "Operation" -> {"responses"}
    [] T = "RequestBody" -> {"content"}
    [] T = "OAuthFlow" -> {"authorizationUrl", "tokenUrl", "scopes"}
    [] T = "ServerVariable" -> {"default"}
    [] T = "Server" -> {"url"}
    [] T = "License" -> {"name"}
    [] T = "Tag" -> {"name"}
    [] T = "ExternalDocumentation" -> {"url"}
    [] T = "Parameter" -> {"name", "in"}
    [] T = "Discriminator" -> {"propertyName"}
    [] OTHER -> {}

OptionalKeys(T) == Keys(T) \ RequiredKeys(T)

\* the zero or empty value of a field: "", false, nil, or a sequence or map
\* without entries, nil or allocated
IsEmpty(fd, x) ==
  CASE fd.kind = "str" -> x = GoStr("")
    [] fd.kind = "bool" -> x = GoBool(FALSE)
    [] fd.kind \in {"ptr", "any"} -> IsNil(x)
    [] fd.kind = "val" -> FALSE
    [] OTHER -> GoLen(x) = 0

\* the entity types with a codec in the sources and a fixed set of fields
CodecTypes == StructTypes \ {"SecurityScheme"}

\* C5 (as stated): every encoder omits an optional field from the output
\* map whenever the field holds its zero or empty value, nil or allocated
\* but empty.
C5_OptionalOmission ==
  (pc = "yamlEnc" /\ ty \in CodecTypes) =>
    \A k \in OptionalKeys(ty) \ DOMAIN ExtEntries(val) :
      IsEmpty(FieldOf(ty, k), val.f[k]) => k \notin EncodedKeys(yamlBytes)

\* C6: encoding an entity whose optional fields are all at their zero value
\* produces a map with exactly the entity's required keys and the keys of
\* its extension bag; this includes the re-encoding of the decoded minimal
\* document, which has exactly the keys openapi, info and paths.
C6_OmissionLaw ==
  (pc = "yamlEnc" /\ ty \in Types \ {"SecurityScheme"}
     /\ \A k \in OptionalKeys(ty) : val.f[k] = ZeroOf(FieldOf(ty, k))) =>
    EncodedKeys(yamlBytes) =
      RequiredKeys(ty) \cup (IF val.x.t = "smap" THEN DOMAIN val.x.m ELSE {})

\* C6 witness: the minimal document was decoded and the result re-encoded
\* with the keys openapi, info and paths
C6_Witness ==
  /\ pc = "yamlEnc" /\ ty = "OpenAPI"
  /\ val.f["openapi"] = GoStr("3.0.2")
  /\ val.f["info"].f["title"] = GoStr("t")
  /\ val.f["paths"] = Zero("Paths")
  /\ EncodedKeys(yamlBytes) = {"openapi", "info", "paths"}

\* C7 (as stated): for every type with Clone and every value v, v.Clone()
\* succeeds and returns a value deeply equal to v, extension bag included.
C7_CloneEquality ==
  pc = "cloned" => (~cl.err /\ cl.v = val)

\* C8: the result of Clone shares no pointer, map or slice with the
\* original: a write through a reference of the clone leaves the original
\* unchanged, and a write through a reference of the original leaves the
\* clone unchanged.
C8_CloneIndependence ==
  [][(pc = "cloned" /\ pc' = "mutated") =>
       /\ ~Shares(cl.v)
       /\ cl' # cl => val' = val
       /\ val' # val => cl' = cl]_vars

\* C8 witness: an extension value of the clone was edited and the original
\* still holds the old value
C8_Witness ==
  /\ pc = "mutated" /\ ty = "License"
  /\ val.x = SMap("x-a" :> GoInt(1))
  /\ cl.v.x = SMap("x-a" :> GoInt(2))

\* C9 (as stated): whenever a decode call returns an error the destination
\* is left exactly as it was before the call, the zero entity the caller
\* passed.
C9_NoPartialResult ==
  (pc = "yamlDec" /\ dstY.err) => dstY.v = Zero(ty)

\* a value of the wrong shape for a string or bool field
WrongShape(fd, n) ==
  \/ fd.kind = "str" /\ n.t # "str"
  \/ fd.kind = "bool" /\ n.t # "bool"

\* the string and bool keys of T that the document holds with a wrong shape
MismatchedKeys(T, n) ==
  {k \in Keys(T) :
     /\ FieldOf(T, k).kind \in {"str", "bool"}
     /\ GoStr(k) \in DOMAIN n.m
     /\ WrongShape(FieldOf(T, k), n.m[GoStr(k)])}

\* C10 (as stated): for every entity decoder, a known string or bool key
\* present with a value of the wrong shape gives no error and leaves the
\* field at its zero value while the other fields decode normally: the
\* result is the result for the document without the key.
C10_ScalarLeniency ==
  DocDecoded =>
    \A k \in MismatchedKeys(ty, yamlBytes.v) :
      /\ dstY = Unmarshal(TEnt(ty), WithoutKey(yamlBytes.v, k))
      /\ dstY.v.f[k] = ZeroOf(FieldOf(ty, k))

\* the []string fields that are filled by coercion
StringArrayKey(T) ==
  CASE T = "Operation" -> "tags"
    [] T = "Schema" -> "required"
    [] T = "ServerVariable" -> "enum"

\* the strings expected for the elements xs of a source sequence
Stringified(xs) == GoSeq([i \in 1..Len(xs) |-> GoStr(Sprint(xs[i]))])

\* C11: decoding Operation.Tags, Schema.Required or ServerVariable.Enum from
\* a sequence gives a sequence of the same length and order whose i-th
\* element is the string conversion of the i-th source element, from YAML
\* and from JSON; a source value that is not a sequence leaves the field at
\* its zero value, and neither case is an error: the call fails only if it
\* fails for the document without the key.
C11_StringArrayCoercion ==
  (DocDecoded /\ ty \in {"Operation", "Schema", "ServerVariable"}
     /\ HasKey(yamlBytes, StringArrayKey(ty))) =>
    LET k == StringArrayKey(ty)
        n == yamlBytes.v.m[GoStr(k)]
        j == jsonBytes.v.m[k]
    IN /\ dstY.err = Unmarshal(TEnt(ty), WithoutKey(yamlBytes.v, k)).err
       /\ dstJ.err = dstY.err
       /\ ~dstY.err =>
          IF n.t = "yseq"
          THEN /\ dstY.v.f[k] = Stringified([i \in 1..Len(n.xs) |-> yamlUnmarshalAny(n.xs[i])])
               /\ dstJ.v.f[k] = Stringified([i \in 1..Len(j.xs) |-> jsonUnmarshalAny(j.xs[i])])
               /\ Len(dstY.v.f[k].xs) = Len(n.xs)
          ELSE /\ dstY.v.f[k] = NilSlice
               /\ dstJ.v.f[k] = NilSlice

\* C11 witness: the enum [8443, "443", true] of a server variable was decoded
\* to the strings "8443", "443", "true"
C11_Witness ==
  /\ DocDecoded /\ ty = "ServerVariable" /\ HasKey(yamlBytes, "enum")
  /\ ~dstY.err /\ ~dstJ.err
  /\ yamlBytes.v.m[GoStr("enum")] = YSeq(<< GoInt(8443), GoStr("443"), GoBool(TRUE) >>)
  /\ dstY.v.f["enum"] = GoSeq(<< GoStr("8443"), GoStr("443"), GoStr("true") >>)
  /\ dstJ.v.f["enum"] = dstY.v.f["enum"]

RECURSIVE Canonical(_)
\* a value built from scalars, sequences and string-keyed maps only
Canonical(v) ==
  CASE v.t = "seq" -> \A i \in 1..Len(v.xs) : Canonical(v.xs[i])
    [] v.t = "smap" -> \A k \in DOMAIN v.m : Canonical(v.m[k])
    [] v.t = "imap" -> FALSE
    [] OTHER -> TRUE

\* the fields that accept a free-form value
FreeFormKeys(T) ==
  CASE T = "Schema" -> {"example", "default", "enum"}
    [] T \in {"MediaType", "Header", "Parameter"} -> {"example"}
    [] T = "Example" -> {"value"}
    [] OTHER -> {}

\* C12 (as stated): in every decoded entity the extension values and the
\* free-form fields (Schema.Example, Schema.Default, Schema.Enum,
\* MediaType.Example, Example.Value, Header.Example, Parameter.Example) hold
\* no map with untyped keys at any depth.
C12_FreeFormCanonical ==
  (DocDecoded /\ ~dstY.err) =>
    /\ Canonical(dstY.v.x)
    /\ \A k \in FreeFormKeys(ty) : Canonical(dstY.v.f[k])

RECURSIVE Normalized(_, _)
\* r is v with every sequence rebuilt element by element and every
\* untyped-key map turned into a string-keyed map of the stringified keys
Normalized(v, r) ==
  CASE v.t = "seq" ->
         /\ r.t = "seq" /\ Len(r.xs) = Len(v.xs)
         /\ \A i \in 1..Len(v.xs) : Normalized(v.xs[i], r.xs[i])
    [] v.t = "imap" ->
         /\ r.t = "smap"
         /\ DOMAIN r.m = {Sprint(k) : k \in DOMAIN v.m}
         /\ \A s \in DOMAIN r.m :
              \E k \in DOMAIN v.m : Sprint(k) = s /\ Normalized(v.m[k], r.m[s])
    [] OTHER -> r = v

RECURSIVE YamlShaped(_)
\* a value as yaml.Unmarshal builds it: no string-keyed map at any depth
YamlShaped(v) ==
  CASE v.t = "seq" -> \A i \in 1..Len(v.xs) : YamlShaped(v.xs[i])
    [] v.t = "imap" -> \A k \in DOMAIN v.m : YamlShaped(v.m[k])
    [] v.t = "smap" -> FALSE
    [] OTHER -> TRUE

\* C13 (as stated): for any input cleanupMapValue returns the normalized
\* sequence for a sequence, the string-keyed map of stringified keys and
\* normalized values for an untyped-key map and any other value unchanged,
\* and no untyped-key map remains at any depth of the result.
C13_NormalizerTotal ==
  pc = "cleaned" => (Normalized(arg, ret) /\ Canonical(ret))

\* C13 (amended): the result is as stated for any input, and no untyped-key
\* map remains in it when the input is a value built by yaml.Unmarshal
\* (scalars, sequences and untyped-key maps); a string-keyed map is returned
\* unchanged, with whatever it holds.
C13_NormalizerYamlShaped ==
  pc = "cleaned" => (Normalized(arg, ret) /\ (YamlShaped(arg) => Canonical(ret)))

\* C13 witness: a map with untyped keys nested in a map with untyped keys
\* was returned as string-keyed maps
C13_Witness ==
  /\ pc = "cleaned"
  /\ arg = IMap(GoStr("k") :> IMap(GoInt(1) :> GoStr("a")))
  /\ ret = SMap("k" :> SMap("1" :> GoStr("a")))

\* the entries of a document under keys with the x- prefix
ExtensionNodes(n) == {kn \in DOMAIN n.m : IsExtKey(Sprint(kn))}

\* every entry without x- prefix is a map that decodes as a PathItem
ValidPathItems(n) ==
  \A kn \in DOMAIN n.m \ ExtensionNodes(n) :
    /\ n.m[kn].t = "ymap"
    /\ ~Unmarshal([k |-> "ptr", child |-> "PathItem"], n.m[kn]).err

\* C14 (as stated): decoding a Paths map whose entries without x- prefix are
\* all valid PathItem maps succeeds and stores every x- key in
\* Paths.Extensions with its normalized value, whether that value is a
\* scalar, a sequence or a map.
C14_PathsExtensionCapture ==
  (DocDecoded /\ ty = "Paths" /\ ValidPathItems(yamlBytes.v)) =>
    /\ ~dstY.err
    /\ \A kn \in ExtensionNodes(yamlBytes.v) :
         /\ dstY.v.x.t = "smap"
         /\ Sprint(kn) \in DOMAIN dstY.v.x.m
         /\ dstY.v.x.m[Sprint(kn)] =
              cleanupMapValue(yamlUnmarshalAny(yamlBytes.v.m[kn]))

\* C15 (as stated): for every entity and every content of its extension
\* bag, the encoder drops the bag keys without x- prefix, so every key of
\* the output map is a known key or an x- key and the value under each
\* known key is the typed field's own value, emitted by the field's own
\* rule.
C15_ExtensionNonCollision ==
  (pc = "yamlEnc" /\ ty \in CodecTypes) =>
    /\ \A k \in EncodedKeys(yamlBytes) : k \in Keys(ty) \/ IsExtKey(k)
    /\ \A k \in Keys(ty) :
         HasKey(yamlBytes, k) =>
           /\ Emits(FieldOf(ty, k), val.f[k])
           /\ yamlBytes.v.m[GoStr(k)] = yamlMarshal(val.f[k])

\* the child schemas a schema holds
SchemaChildren(v) ==
  UNION {CASE v.f[k].t = "ent" -> {v.f[k]}
           [] v.f[k].t = "seq" ->
                {v.f[k].xs[i] : i \in {j \in 1..Len(v.f[k].xs) : v.f[k].xs[j].t = "ent"}}
           [] v.f[k].t = "smap" ->
                {v.f[k].m[e] : e \in {d \in DOMAIN v.f[k].m : v.f[k].m[d].t = "ent"}}
           [] OTHER -> {} : k \in SchemaLinks}

RECURSIVE Depth(_)
\* the number of schema levels in v
Depth(v) ==
  IF SchemaChildren(v) = {} THEN 1
  ELSE LET ds == {Depth(c) : c \in SchemaChildren(v)}
       IN 1 + CHOOSE d \in ds : \A e \in ds : e <= d

NumericKeys ==
  {"multipleOf", "maximum", "minimum", "maxLength", "minLength", "maxItems",
   "minItems", "maxProperties", "minProperties"}

IsNumber(x) == x.t \in {"int", "float"}

\* C17 (as stated): a numeric-constraint field of Schema keeps the literal
\* form of its source: an integer literal is stored as an integer and a
\* floating-point literal as a floating-point value, from JSON as from
\* YAML, and the value of the field is the same after an encode/decode
\* round trip.
C17_NumericLiteralForm ==
  /\ (DocDecoded /\ ty = "Schema" /\ ~dstY.err /\ ~dstJ.err) =>
       \A k \in NumericKeys :
         (HasKey(yamlBytes, k) /\ IsNumber(yamlBytes.v.m[GoStr(k)])) =>
           /\ dstY.v.f[k] = yamlBytes.v.m[GoStr(k)]
           /\ dstJ.v.f[k] = jsonBytes.v.m[k]
  /\ (RoundTripDone /\ ty = "Schema" /\ ~dstY.err /\ ~dstJ.err) =>
       \A k \in NumericKeys :
         IsNumber(val.f[k]) => (dstY.v.f[k] = val.f[k] /\ dstJ.v.f[k] = val.f[k])

\* the entity types with a Ref field
RefTypes ==
  {"Schema", "Header", "Parameter", "RequestBody", "Response", "Link",
   "Example", "Callback", "PathItem"}

\* the $ref of the document is a string
HasRefString(b) == HasKey(b, "$ref") /\ b.v.m[GoStr("$ref")].t = "str"

\* C18 (as stated): for every entity with a Ref field, decode stores the
\* $ref string verbatim and populates the fields of the sibling keys exactly
\* as it does for the document without $ref, failing only if that document
\* fails; and encode emits $ref with the value of Ref next to the keys it
\* emits for the same entity without Ref.
C18_ReferenceOpacity ==
  /\ (DocDecoded /\ ty \in RefTypes /\ HasRefString(yamlBytes)) =>
       LET other == Unmarshal(TEnt(ty), WithoutKey(yamlBytes.v, "$ref"))
       IN /\ dstY.err = other.err
          /\ ~dstY.err =>
               dstY.v = WithField(other.v, "$ref", yamlBytes.v.m[GoStr("$ref")])
  /\ (pc = "yamlEnc" /\ ty \in RefTypes /\ val.f["$ref"] # GoStr("")
        /\ "$ref" \notin DOMAIN ExtEntries(val)) =>
       /\ HasKey(yamlBytes, "$ref")
       /\ yamlBytes.v.m[GoStr("$ref")] = val.f["$ref"]
       /\ WithoutKey(yamlBytes.v, "$ref") =
            yamlMarshal(WithField(val, "$ref", GoStr("")))

\* the embedded Header of a Parameter
HeaderPart(p) == Ent("Header", [k \in Keys("Header") |-> p.f[k]], p.x)

\* C19: the Header part of the Parameter decoded from a source map equals
\* the Header decoded from the same map, with the same outcome, and the
\* encoded map of a Parameter has the keys of the encoded map of its
\* embedded Header plus name and in, with the Header's values under the
\* Header's keys.
C19_ParameterHeaderComposition ==
  /\ (DocDecoded /\ ty = "Parameter") =>
       LET h == Unmarshal(TEnt("Header"), yamlBytes.v)
           hj == UnmarshalJSON("Header", Zero("Header"), jsonBytes.v)
       IN /\ dstY.err = h.err /\ HeaderPart(dstY.v) = h.v
          /\ dstJ.err = hj.err /\ HeaderPart(dstJ.v) = hj.v
  /\ (pc = "yamlEnc" /\ ty = "Parameter") =>
       LET pm == yamlBytes.v.m
           hm == yamlMarshal(HeaderPart(val)).m
       IN /\ DOMAIN pm = DOMAIN hm \cup {GoStr("name"), GoStr("in")}
          /\ \A kn \in DOMAIN hm \ {GoStr("name"), GoStr("in")} : pm[kn] = hm[kn]

\* C19 witness: a document with $ref and a map-shaped example was decoded
\* into a Parameter whose Ref and Example are those of the Header decoded
\* from it
C19_Witness ==
  /\ DocDecoded /\ ty = "Parameter" /\ ~dstY.err
  /\ dstY.v.f["$ref"] = GoStr("s")
  /\ dstY.v.f["example"] = IMap(GoStr("k") :> GoInt(1))
  /\ HeaderPart(dstY.v) = Unmarshal(TEnt("Header"), yamlBytes.v).v

\* C20: for every entity type and every value a caller builds, MarshalYAML
\* returns no error, for the entity and for every entity inside it, and the
\* document written from it is a map.
C20_EncodeNeverFails ==
  pc = "yamlEnc" =>
    /\ ~MarshalYAMLError(val)
    /\ ~yamlBytes.err
    /\ yamlBytes.v.t = "ymap"

\* C20 witness: an Info with a Contact, whose map Info.MarshalYAML obtains
\* from Contact.MarshalYAML, was encoded with the key contact
C20_Witness ==
  /\ pc = "yamlEnc" /\ ty = "Info"
  /\ val.f["contact"].t = "ent"
  /\ ~yamlBytes.err
  /\ HasKey(yamlBytes, "contact")

\* what goroutine t's call returned: the error and the destination
ThreadResult(t) == [err |-> th[t].err, v |-> th[t].r]

\* C21: when two decode calls on two documents into two destinations are
\* interleaved in any order, every step of one call leaves the position,
\* the locals and the destination of the other call as they are, and each
\* call returns the result (entity or error) it returns when run alone.
C21_ConcurrentDecodeIndependence ==
  [][\A t \in Threads :
       th'[t] # th[t] =>
         /\ \A u \in Threads \ {t} : th'[u] = th[u]
         /\ th'[t].pc = "done" =>
              [err |-> th'[t].err, v |-> th'[t].r]
                = Unmarshal(TEnt(th'[t].T), th'[t].n)]_vars

\* C21 witness: the first goroutine has decoded its Info while the second
\* one, which started before the first one ended, is between two blocks of
\* a Paths document that the first one's result shows nothing of
C21_Witness ==
  /\ th[1].pc = "done" /\ th[1].T = "Info" /\ ~th[1].err
  /\ ThreadResult(1).v.f["title"] = GoStr("s")
  /\ ThreadResult(1).v.x = SMap("x-foo" :> GoStr("a"))
  /\ th[2].pc = "exts" /\ th[2].T = "Paths"
  /\ DOMAIN th[2].n.m = {GoStr("x-foo"), GoStr("/p")}
  /\ th[2].r.f["PathItems"].t = "smap"
  /\ th[2].r.x = NilMap

\* the keys of the entries and of the extension bag of a Paths value
PathKeys(v) == DOMAIN MapEntries(v.f["PathItems"])
BagKeys(v) == DOMAIN ExtEntries(v)

\* C22 (as stated): after a successful decode of a Paths map the keys of
\* PathItems are exactly the source keys without x- prefix and the keys of
\* Extensions exactly those with it, disjoint and covering every source
\* key; and encoding any Paths value emits each PathItems entry and each
\* Extensions entry under its own key, neither overwriting the other.
C22_PathsKeyPartition ==
  /\ (DocDecoded /\ ty = "Paths" /\ ~dstY.err /\ ~dstJ.err) =>
       LET src == StrKeys(yamlBytes.v) IN
       /\ PathKeys(dstY.v) = {k \in src : ~IsExtKey(k)}
       /\ BagKeys(dstY.v) = {k \in src : IsExtKey(k)}
       /\ PathKeys(dstY.v) \cap BagKeys(dstY.v) = {}
       /\ PathKeys(dstY.v) \cup BagKeys(dstY.v) = src
       /\ PathKeys(dstJ.v) = PathKeys(dstY.v)
       /\ BagKeys(dstJ.v) = BagKeys(dstY.v)
  /\ (pc = "yamlEnc" /\ ty = "Paths") =>
       /\ \A k \in PathKeys(val) :
            /\ HasKey(yamlBytes, k)
            /\ yamlBytes.v.m[GoStr(k)] = yamlMarshal(val.f["PathItems"].m[k])
       /\ \A k \in BagKeys(val) :
            /\ HasKey(yamlBytes, k)
            /\ yamlBytes.v.m[GoStr(k)] = yamlMarshal(val.x.m[k])

\* C23 (as stated): decoding a Callback map that holds the key $ref, alone
\* or next to callback expressions and x- keys, succeeds, stores the string
\* in Ref and leaves in CallbackItems exactly the source keys that are
\* neither $ref nor x- prefixed; and encoding a Callback emits $ref with the
\* value of Ref, never with a CallbackItems entry.
C23_CallbackReference ==
  /\ (DocDecoded /\ ty = "Callback" /\ HasRefString(yamlBytes)) =>
       /\ ~dstY.err
       /\ dstY.v.f["$ref"] = yamlBytes.v.m[GoStr("$ref")]
       /\ DOMAIN MapEntries(dstY.v.f["CallbackItems"]) =
            {k \in StrKeys(yamlBytes.v) : k # "$ref" /\ ~IsExtKey(k)}
  /\ (pc = "yamlEnc" /\ ty = "Callback" /\ val.f["$ref"] # GoStr("")
        /\ "$ref" \notin BagKeys(val)) =>
       /\ HasKey(yamlBytes, "$ref")
       /\ yamlBytes.v.m[GoStr("$ref")] = val.f["$ref"]

RECURSIVE NoEmptyBag(_)
\* no entity in v has an allocated extension bag without entries
NoEmptyBag(v) ==
  CASE v.t = "ent" ->
         /\ v.x # SMap(<< >>)
         /\ \A k \in DOMAIN v.f : NoEmptyBag(v.f[k])
    [] v.t = "seq" -> \A i \in 1..Len(v.xs) : NoEmptyBag(v.xs[i])
    [] v.t = "smap" -> \A k \in DOMAIN v.m : NoEmptyBag(v.m[k])
    [] OTHER -> TRUE

\* the document has no key with the x- prefix
NoExtensionKey(n) == n.t = "ymap" /\ ExtensionNodes(n) = {}

\* C24: for every entity decoder, a source map without x- key leaves the
\* Extensions of the decoded entity nil, from YAML and from JSON, so that a
\* document without extensions decodes to the entity built without an
\* Extensions field; no decoded entity, at any depth, holds an allocated
\* extension bag without entries.
C24_EmptyBagAbsent ==
  (pc = "yamlDec" /\ ty \in Types \ {"Discriminator", "SecurityScheme"}) =>
    /\ NoExtensionKey(yamlBytes.v) => dstY.v.x = NilMap
    /\ NoEmptyBag(dstY.v)
    /\ dstJ # None =>
         /\ NoExtensionKey(yamlBytes.v) => dstJ.v.x = NilMap
         /\ NoEmptyBag(dstJ.v)

\* C24 witness: a Response document with a description and no x- key was
\* decoded to the Response built with that description alone
C24_Witness ==
  /\ DocDecoded /\ ty = "Response" /\ ~dstY.err
  /\ StrKeys(yamlBytes.v) = {"description", "foo"}
  /\ dstY.v = WithField(Zero("Response"), "description", GoStr("a"))
  /\ dstY.v.x = NilMap
  /\ dstJ.v = dstY.v

\* the Extensions value that comes back from encoding e and decoding the
\* result
ExtensionsRoundTrip(e) ==
  ExtensionsUnmarshal(yamlMarshal(SMap(ExtensionsMarshalYAML(e))))

\* C25: the Extensions codec, used alone, keeps a key if and only if its
\* lowercase form begins with "x-": the encoded map has exactly the x- keys
\* of the value and the decoded value exactly the x- keys of the document
\* (X-Foo and x-foo kept, foo and xfoo dropped), in JSON as in YAML; so
\* encoding and decoding a decoded value gives that value again, and it
\* holds x- keys only.
C25_ExtensionsFilter ==
  /\ (pc \in {"extEnc", "extDec"} /\ val # None) =>
       /\ EncodedKeys(yamlBytes) = {k \in DOMAIN val.m : IsExtKey(k)}
       /\ ~jsonBytes.err
       /\ DOMAIN jsonBytes.v.m = EncodedKeys(yamlBytes)
  /\ pc = "extDec" =>
       /\ ~dstY.err /\ ~dstJ.err
       /\ DOMAIN dstY.v.m = {k \in StrKeys(yamlBytes.v) : IsExtKey(k)}
       /\ DOMAIN dstJ.v.m = {k \in DOMAIN jsonBytes.v.m : IsExtKey(k)}
       /\ DOMAIN dstY.v.m \cap {"foo", "xfoo"} = {}
       /\ ExtensionsRoundTrip(dstY.v) = dstY
       /\ ExtensionsRoundTrip(dstJ.v) = dstJ
       /\ val # None => ExtensionsRoundTrip(val) = dstY

\* C25 witness: the value with the keys x-foo, X-Foo, foo and xfoo was
\* encoded with the keys x-foo and X-Foo and decoded to those two entries
C25_Witness ==
  /\ pc = "extDec" /\ val # None
  /\ DOMAIN val.m = {"x-foo", "X-Foo", "foo", "xfoo"}
  /\ EncodedKeys(yamlBytes) = {"x-foo", "X-Foo"}
  /\ dstY.v = SMap(("x-foo" :> GoInt(1)) @@ ("X-Foo" :> GoInt(1)))
  /\ dstJ.v = dstY.v

\* the node is a security declaration [ {scheme: [scope, ...]}, ... ]
IsSecurityForm(n) ==
  /\ n.t = "yseq" /\ Len(n.xs) > 0
  /\ \A i \in 1..Len(n.xs) :
       /\ n.xs[i].t = "ymap" /\ DOMAIN n.xs[i].m # {}
       /\ \A kn \in DOMAIN n.xs[i].m :
            /\ kn.t = "str"
            /\ n.xs[i].m[kn].t = "yseq"
            /\ \A j \in 1..Len(n.xs[i].m[kn].xs) : n.xs[i].m[kn].xs[j].t = "str"

\* the ordered list of maps from scheme name to ordered scope list that the
\* node writes
SecurityShape(n) == cleanupMapValue(yamlUnmarshalAny(n))

\* C26 (as stated): a security declaration [ {scheme: [scope, ...]}, ... ]
\* decodes without error as OpenAPI.Security and as Operation.Security, to
\* the same ordered list of maps from scheme name to ordered scope list in
\* both places, from YAML and from JSON, and a Security of that form comes
\* back from an encode/decode round trip with the alternatives and the
\* scopes in their order.
C26_SecurityRequirementShape ==
  /\ (DocDecoded /\ ty \in {"Operation", "OpenAPI"}
        /\ HasKey(yamlBytes, "security")
        /\ IsSecurityForm(yamlBytes.v.m[GoStr("security")])) =>
       /\ ~dstY.err /\ ~dstJ.err
       /\ dstY.v.f["security"] = SecurityShape(yamlBytes.v.m[GoStr("security")])
       /\ dstJ.v.f["security"] = dstY.v.f["security"]
  /\ (RoundTripDone /\ ty \in {"Operation", "OpenAPI"} /\ ~yamlBytes.err
        /\ HasKey(yamlBytes, "security")
        /\ IsSecurityForm(yamlBytes.v.m[GoStr("security")])) =>
       /\ ~dstY.err /\ dstY.v.f["security"] = val.f["security"]
       /\ ~dstJ.err /\ dstJ.v.f["security"] = val.f["security"]

\* C27 (as stated): for every entity type and every document that decodes
\* without error to an entity e, encoding e and decoding the result gives an
\* entity equal to e, nil and allocated-but-empty told apart, in YAML and in
\* JSON; documents with explicitly empty or null values (servers: [],
\* callbacks: {}, properties: {}, get: null) included.
C27_DecodeEncodeStable ==
  (DocDecoded /\ ty \in CodecTypes \cup MapTypes) =>
    /\ ~dstY.err => Unmarshal(TEnt(ty), yamlMarshal(dstY.v)) = dstY
    /\ ~dstJ.err =>
         /\ ~MarshalJSON(dstJ.v).err
         /\ UnmarshalJSON(ty, Zero(ty), MarshalJSON(dstJ.v).v) = dstJ

\* the same map visited in the opposite order
Reordered(v) ==
  IF "ord" \in DOMAIN v
  THEN [v EXCEPT !.ord = [i \in 1..Len(@) |-> @[Len(@) + 1 - i]]]
  ELSE v

\* C28 (as stated): normalizing a map with untyped keys gives a result that
\* depends on the input alone, not on the order in which the map is
\* iterated, and that has exactly one entry per source entry: two distinct
\* source keys never end up under one output key with one value lost.
C28_NormalizerDeterminism ==
  (pc = "cleaned" /\ arg.t = "imap") =>
    /\ ret = cleanupMapValue(Reordered(arg))
    /\ Cardinality(DOMAIN ret.m) = Cardinality(DOMAIN arg.m)

====
